---- MODULE Spec2Model ----
(***************************************************************************)
(* Image to PDF converter: the App component's state and handlers          *)
(* (src/App.tsx) and the document assembler generatePdf                    *)
(* (src/services/pdfService.ts).                                           *)
(*                                                                         *)
(* Numbers that the code computes in floating point are modelled as exact  *)
(* rationals [n, d] in lowest terms with d > 0, so that record equality is *)
(* numeric equality.                                                       *)
(***************************************************************************)
EXTENDS Integers, Sequences, FiniteSets, TLC

VARIABLES imageFiles, pdfFilename, isLoading, error,
          dragItemIndex, dragOverItemIndex, runs, jspdfLoaded, pointerCard

vars == <<imageFiles, pdfFilename, isLoading, error,
          dragItemIndex, dragOverItemIndex, runs, jspdfLoaded, pointerCard>>

-----------------------------------------------------------------------------
(* Bounds of the model *)

MaxImages == 2
MaxCards == 3
MaxPdfFiles == 3
MaxRuns == 2
MaxDim == 6

-----------------------------------------------------------------------------
(* Exact rational arithmetic *)

Abs(k) == IF k < 0 THEN -k ELSE k

RECURSIVE Gcd(_, _)
Gcd(a, b) == IF b = 0 THEN a ELSE Gcd(b, a % b)

Rat(n, d) ==
    LET g == Gcd(Abs(n), Abs(d))
        s == IF d < 0 THEN -1 ELSE 1
    IN  [n |-> (s * n) \div g, d |-> (s * d) \div g]

Num(k) == [n |-> k, d |-> 1]

(* Products are taken after cancelling across the two fractions, sums over *)
(* the least common denominator and comparisons by continued fractions, so *)
(* that no intermediate value leaves the 32-bit integers.                  *)
RMul(a, b) ==
    LET g1 == Gcd(Abs(a.n), b.d)
        g2 == Gcd(Abs(b.n), a.d)
    IN  Rat((a.n \div g1) * (b.n \div g2), (a.d \div g2) * (b.d \div g1))

RDiv(a, b) == RMul(a, Rat(b.d, b.n))

RSub(a, b) ==
    LET g == Gcd(a.d, b.d)
    IN  Rat(a.n * (b.d \div g) - b.n * (a.d \div g), (a.d \div g) * b.d)

RAdd(a, b) ==
    LET g == Gcd(a.d, b.d)
    IN  Rat(a.n * (b.d \div g) + b.n * (a.d \div g), (a.d \div g) * b.d)

(* a/b > c/d for a, c >= 0 and b, d > 0 *)
RECURSIVE FracGt(_, _, _, _)
FracGt(a, b, c, d) ==
    IF a \div b # c \div d THEN a \div b > c \div d
    ELSE IF a % b = 0 THEN FALSE
    ELSE IF c % d = 0 THEN TRUE
    ELSE FracGt(d, c % d, b, a % b)

RGt(a, b) ==
    IF a.n < 0 /\ b.n >= 0 THEN FALSE
    ELSE IF a.n >= 0 /\ b.n < 0 THEN TRUE
    ELSE IF a.n < 0 THEN FracGt(-b.n, b.d, -a.n, a.d)
    ELSE FracGt(a.n, a.d, b.n, b.d)

RLe(a, b) == ~RGt(a, b)

-----------------------------------------------------------------------------
(* Page configuration of generatePdf *)

(* The writer made by new jsPDF({orientation: 'l', unit: 'mm',             *)
(* format: 'a4'}): the A4 sheet is 595.28 x 841.89 points, a millimetre is *)
(* 72/25.4 points, and landscape puts the long side across.  The page size *)
(* the writer reports is 3564001/12000 x 945007/4500 mm, that is           *)
(* 297.0000833... x 210.0015555..., not the nominal 297 x 210.  A new      *)
(* writer draws text at font size 16.                                      *)
A4Points == [w |-> Rat(59528, 100), h |-> Rat(84189, 100)]
PointsPerMm == Rat(720, 254)
PageSize == [w |-> RDiv(A4Points.h, PointsPerMm), h |-> RDiv(A4Points.w, PointsPerMm)]
DefaultFontSize == 16

PAGE_WIDTH == PageSize.w
PAGE_HEIGHT == PageSize.h
MARGIN == 15
FOOTER_HEIGHT == 20
FooterFontSize == 10
MAX_WIDTH == RSub(PAGE_WIDTH, Num(MARGIN * 2))

(* Faulty variant of MAX_HEIGHT: one margin subtracted instead of two.     *)
MaxHeightOneMargin == RSub(RSub(PAGE_HEIGHT, Num(MARGIN)), Num(FOOTER_HEIGHT))

MAX_HEIGHT == RSub(RSub(PAGE_HEIGHT, Num(MARGIN * 2)), Num(FOOTER_HEIGHT))

-----------------------------------------------------------------------------
(* Files.  A file is a name and the pixel size its decoded image has.      *)

WideFile == [name |-> "wide.jpg", width |-> 200, height |-> 100]
SquareFile == [name |-> "square.jpg", width |-> 100, height |-> 100]
TallFile == [name |-> "tall.jpg", width |-> 100, height |-> 300]

Files == {WideFile, SquareFile, TallFile}

UploadFiles == {WideFile, TallFile}

Dims == 1 .. MaxDim

(* An image whose aspect ratio is exactly that of the content box, and one *)
(* of the nominal box size 267 x 160, just wider than the box.             *)
BoxRatioFile ==
    LET maxRatio == RDiv(MAX_WIDTH, MAX_HEIGHT)
    IN  [name |-> "box.jpg", width |-> maxRatio.n, height |-> maxRatio.d]

NominalBoxFile == [name |-> "nominal.jpg", width |-> 267, height |-> 160]

ProbeFiles ==
    [name : {"probe.jpg"}, width : Dims, height : Dims]
        \cup {BoxRatioFile, NominalBoxFile}

RECURSIVE SeqsUpTo(_, _)
SeqsUpTo(S, k) ==
    IF k = 0 THEN {<<>>}
    ELSE LET shorter == SeqsUpTo(S, k - 1)
         IN  shorter \cup {Append(s, x) : s \in {t \in shorter : Len(t) = k - 1}, x \in S}

-----------------------------------------------------------------------------
(* The document writer and generatePdf *)

NoImage == [kind |-> "none"]
EmptyPage == [image |-> NoImage, texts |-> <<>>]

(* Faulty variants of PlacedSize: the comparison reversed; the height      *)
(* branch scaling from the width limit.                                    *)
PlacedSizeReversed(img) ==
    LET imgRatio == Rat(img.width, img.height)
        maxRatio == RDiv(MAX_WIDTH, MAX_HEIGHT)
    IN  IF RGt(maxRatio, imgRatio)
        THEN [w |-> MAX_WIDTH, h |-> RDiv(MAX_WIDTH, imgRatio)]
        ELSE [w |-> RMul(MAX_HEIGHT, imgRatio), h |-> MAX_HEIGHT]

PlacedSizeWidthScaled(img) ==
    LET imgRatio == Rat(img.width, img.height)
        maxRatio == RDiv(MAX_WIDTH, MAX_HEIGHT)
    IN  IF RGt(imgRatio, maxRatio)
        THEN [w |-> MAX_WIDTH, h |-> RDiv(MAX_WIDTH, imgRatio)]
        ELSE [w |-> RMul(MAX_WIDTH, imgRatio), h |-> MAX_HEIGHT]

PlacedSizeAlwaysWidth(img) ==
    LET imgRatio == Rat(img.width, img.height)
    IN  [w |-> MAX_WIDTH, h |-> RDiv(MAX_WIDTH, imgRatio)]

PlacedSize(img) ==
    LET imgRatio == Rat(img.width, img.height)
        maxRatio == RDiv(MAX_WIDTH, MAX_HEIGHT)
    IN  IF RGt(imgRatio, maxRatio)
        THEN [w |-> MAX_WIDTH, h |-> RDiv(MAX_WIDTH, imgRatio)]
        ELSE [w |-> RMul(MAX_HEIGHT, imgRatio), h |-> MAX_HEIGHT]

(* Faulty variant of AddedImage: the image is put at the left margin.      *)
AddedImageLeftAligned(img) ==
    LET size == PlacedSize(img)
    IN  [kind |-> "image", file |-> img, format |-> "JPEG",
         x |-> Num(MARGIN),
         y |-> Num(MARGIN),
         w |-> size.w, h |-> size.h]

AddedImage(img) ==
    LET size == PlacedSize(img)
    IN  [kind |-> "image", file |-> img, format |-> "JPEG",
         x |-> RDiv(RSub(PAGE_WIDTH, size.w), Num(2)),
         y |-> Num(MARGIN),
         w |-> size.w, h |-> size.h]

PageNumText(i, n) == <<"Page ", i + 1, " of ", n>>

ErrorText(file) == <<"Error: Could not load image \"", file.name, "\"">>

SuccessPage(page, file, i, n) ==
    [image |-> AddedImage(file),
     texts |-> Append(page.texts,
                      [text |-> PageNumText(i, n),
                       x |-> RDiv(PAGE_WIDTH, Num(2)),
                       y |-> RSub(PAGE_HEIGHT, Num(MARGIN)),
                       font |-> <<"gothic", "normal">>, fontSize |-> FooterFontSize,
                       color |-> "gray100", align |-> "center"])]

(* The catch block sets no font size: the error line is drawn at the size  *)
(* the writer holds, 10 once a footer has been drawn, its default before.  *)
ErrorPage(page, file, fontSize) ==
    [image |-> page.image,
     texts |-> Append(page.texts,
                      [text |-> ErrorText(file),
                       x |-> Num(MARGIN), y |-> Num(MARGIN),
                       font |-> <<"gothic", "normal">>, fontSize |-> fontSize,
                       color |-> "red", align |-> "left"])]

(* The writer's font size after the iteration has drawn its page, and the  *)
(* outcome of the load recorded.                                           *)
Settled(r, loaded) ==
    [r EXCEPT !.fontSize = IF loaded THEN FooterFontSize ELSE r.fontSize,
              !.outcomes = Append(r.outcomes, loaded)]

(* Names are sequences of UTF-16 code units, as the strings of the code.    *)
(* ".pdf"                                                                  *)
PdfExtension == <<46, 112, 100, 102>>

SaveName(name) == name \o PdfExtension

(* Faulty variant of GeneratePdfStart: every image is requested at once.   *)
GeneratePdfStartAllLoads(files, name, caller) ==
    IF ~jspdfLoaded
    THEN [files |-> files, pdfFilename |-> name, caller |-> caller,
          pc |-> "thrown", i |-> 0, pages |-> <<>>, loads |-> <<>>, saved |-> <<>>,
          fontSize |-> DefaultFontSize, outcomes |-> <<>>]
    ELSE IF Len(files) = 0
    THEN [files |-> files, pdfFilename |-> name, caller |-> caller,
          pc |-> "done", i |-> 0, pages |-> <<EmptyPage>>, loads |-> <<>>,
          saved |-> <<[name |-> SaveName(name), pages |-> <<EmptyPage>>]>>,
          fontSize |-> DefaultFontSize, outcomes |-> <<>>]
    ELSE [files |-> files, pdfFilename |-> name, caller |-> caller,
          pc |-> "await", i |-> 0, pages |-> <<EmptyPage>>,
          loads |-> [j \in 1 .. Len(files) |-> j - 1],
          saved |-> <<>>,
          fontSize |-> DefaultFontSize, outcomes |-> <<>>]

(* The call of generatePdf up to its first suspension: the writer is made  *)
(* (this throws when the jspdf global is missing), and the loop reaches    *)
(* the await of the first image; with no file the loop is skipped and the  *)
(* one-page document is saved at once.                                     *)
GeneratePdfStart(files, name, caller) ==
    IF ~jspdfLoaded
    THEN [files |-> files, pdfFilename |-> name, caller |-> caller,
          pc |-> "thrown", i |-> 0, pages |-> <<>>, loads |-> <<>>, saved |-> <<>>,
          fontSize |-> DefaultFontSize, outcomes |-> <<>>]
    ELSE IF Len(files) = 0
    THEN [files |-> files, pdfFilename |-> name, caller |-> caller,
          pc |-> "done", i |-> 0, pages |-> <<EmptyPage>>, loads |-> <<>>,
          saved |-> <<[name |-> SaveName(name), pages |-> <<EmptyPage>>]>>,
          fontSize |-> DefaultFontSize, outcomes |-> <<>>]
    ELSE [files |-> files, pdfFilename |-> name, caller |-> caller,
          pc |-> "await", i |-> 0, pages |-> <<EmptyPage>>, loads |-> <<0>>,
          saved |-> <<>>,
          fontSize |-> DefaultFontSize, outcomes |-> <<>>]

(* Faulty variants of GeneratePdfResume: the page is added only once the   *)
(* image has loaded; the document is saved in every iteration; the files   *)
(* are read from the live image list.                                      *)
GeneratePdfResumeNoPage(r, loaded) ==
    LET n == Len(r.files)
        file == r.files[r.i + 1]
        cur == r.pages[Len(r.pages)]
        pages1 == IF loaded
                  THEN [r.pages EXCEPT ![Len(r.pages)] = SuccessPage(cur, file, r.i, n)]
                  ELSE r.pages
        pages2 == IF loaded /\ r.i + 1 < n THEN Append(pages1, EmptyPage) ELSE pages1
    IN  IF r.i + 1 < n
        THEN [Settled(r, loaded) EXCEPT !.i = r.i + 1, !.pages = pages2,
                       !.loads = Append(r.loads, r.i + 1)]
        ELSE [Settled(r, loaded) EXCEPT !.i = r.i + 1, !.pages = pages2,
                       !.pc = "done",
                       !.saved = Append(r.saved, [name |-> SaveName(r.pdfFilename),
                                                  pages |-> pages2])]

GeneratePdfResumeSaveEach(r, loaded) ==
    LET n == Len(r.files)
        file == r.files[r.i + 1]
        cur == r.pages[Len(r.pages)]
        drawn == IF loaded THEN SuccessPage(cur, file, r.i, n)
                           ELSE ErrorPage(cur, file, r.fontSize)
        pages1 == [r.pages EXCEPT ![Len(r.pages)] = drawn]
        out == Append(r.saved, [name |-> SaveName(r.pdfFilename), pages |-> pages1])
    IN  IF r.i + 1 < n
        THEN [Settled(r, loaded) EXCEPT !.i = r.i + 1,
                       !.pages = Append(pages1, EmptyPage),
                       !.loads = Append(r.loads, r.i + 1),
                       !.saved = out]
        ELSE [Settled(r, loaded) EXCEPT !.i = r.i + 1, !.pages = pages1,
                       !.pc = "done", !.saved = out]

GeneratePdfResumeLiveList(r, loaded) ==
    LET n == Len(r.files)
        file == IF r.i + 1 <= Len(imageFiles) THEN imageFiles[r.i + 1]
                                              ELSE r.files[r.i + 1]
        cur == r.pages[Len(r.pages)]
        drawn == IF loaded THEN SuccessPage(cur, file, r.i, n)
                           ELSE ErrorPage(cur, file, r.fontSize)
        pages1 == [r.pages EXCEPT ![Len(r.pages)] = drawn]
    IN  IF r.i + 1 < n
        THEN [Settled(r, loaded) EXCEPT !.i = r.i + 1,
                       !.pages = Append(pages1, EmptyPage),
                       !.loads = Append(r.loads, r.i + 1)]
        ELSE [Settled(r, loaded) EXCEPT !.i = r.i + 1, !.pages = pages1,
                       !.pc = "done",
                       !.saved = Append(r.saved, [name |-> SaveName(r.pdfFilename),
                                                  pages |-> pages1])]

(* The rest of one loop iteration after loadImage settled, up to the next  *)
(* suspension or the save.  loaded = FALSE is any failure inside the try   *)
(* block: the promise of loadImage rejected, or addImage threw.            *)
GeneratePdfResume(r, loaded) ==
    LET n == Len(r.files)
        file == r.files[r.i + 1]
        cur == r.pages[Len(r.pages)]
        drawn == IF loaded THEN SuccessPage(cur, file, r.i, n)
                           ELSE ErrorPage(cur, file, r.fontSize)
        pages1 == [r.pages EXCEPT ![Len(r.pages)] = drawn]
    IN  IF r.i + 1 < n
        THEN [Settled(r, loaded) EXCEPT !.i = r.i + 1,
                       !.pages = Append(pages1, EmptyPage),
                       !.loads = Append(r.loads, r.i + 1)]
        ELSE [Settled(r, loaded) EXCEPT !.i = r.i + 1,
                       !.pages = pages1,
                       !.pc = "done",
                       !.saved = Append(r.saved, [name |-> SaveName(r.pdfFilename),
                                                  pages |-> pages1])]

(* Faulty variant of LoadSettled: no finally clause, isLoading stays set.  *)
LoadSettledKeepsLoading(k, loaded) ==
    /\ k \in 1 .. Len(runs)
    /\ runs[k].pc = "await"
    /\ runs' = [runs EXCEPT ![k] = GeneratePdfResume(runs[k], loaded)]
    /\ UNCHANGED <<imageFiles, pdfFilename, isLoading, error, dragItemIndex,
                   dragOverItemIndex, jspdfLoaded, pointerCard>>

(* The continuation of handleGeneratePdf after its await: finally sets     *)
(* isLoading to false once the run has ended.                              *)
LoadSettled(k, loaded) ==
    /\ k \in 1 .. Len(runs)
    /\ runs[k].pc = "await"
    /\ LET r == GeneratePdfResume(runs[k], loaded)
       IN  /\ runs' = [runs EXCEPT ![k] = r]
           /\ isLoading' = IF r.pc = "done" /\ r.caller = "handleGeneratePdf"
                            THEN FALSE ELSE isLoading
    /\ UNCHANGED <<imageFiles, pdfFilename, error, dragItemIndex,
                   dragOverItemIndex, jspdfLoaded, pointerCard>>

LoadResolved == \E k \in 1 .. MaxRuns : LoadSettled(k, TRUE)

LoadRejected == \E k \in 1 .. MaxRuns : LoadSettled(k, FALSE)

-----------------------------------------------------------------------------
(* App state and handlers *)

Null == -1
NoError == "null"
ErrNoImages == "Please add at least one image."
ErrNoFilename == "Please provide a filename for the PDF."
ErrFailed == "Failed to generate PDF: jspdf is not defined"

(* "converted-images"                                                      *)
DefaultFilename ==
    <<99, 111, 110, 118, 101, 114, 116, 101, 100, 45, 105, 109, 97, 103, 101, 115>>

(* "album"                                                                 *)
Album == <<97, 108, 98, 117, 109>>

(* Values of the filename input: the default, and a blank one of a space,  *)
(* a tab and an ideographic space.                                         *)
FilenameInputs == {DefaultFilename, <<32, 9, 12288>>}

(* Values handed to the handlers: also "", " ", " album " and "album"      *)
(* between U+3000 and U+FEFF.                                              *)
HandlerFilenameInputs ==
    FilenameInputs \cup {<<>>, <<32>>, <<32>> \o Album \o <<32>>,
                         <<12288>> \o Album \o <<65279>>}

(* The code units String.prototype.trim strips: the WhiteSpace characters  *)
(* of ECMAScript (U+0009, U+000B, U+000C, U+0020, U+00A0, U+FEFF and the   *)
(* space separators U+1680, U+2000 to U+200A, U+202F, U+205F, U+3000) and  *)
(* its LineTerminator characters (U+000A, U+000D, U+2028, U+2029).         *)
WhiteSpace ==
    {9, 10, 11, 12, 13, 32, 160, 5760} \cup (8192 .. 8202)
        \cup {8232, 8233, 8239, 8287, 12288, 65279}

IsSpace(c) == c \in WhiteSpace

RECURSIVE TrimStart(_)
TrimStart(s) ==
    IF s # <<>> /\ IsSpace(Head(s)) THEN TrimStart(Tail(s)) ELSE s

RECURSIVE TrimEnd(_)
TrimEnd(s) ==
    IF s # <<>> /\ IsSpace(s[Len(s)]) THEN TrimEnd(SubSeq(s, 1, Len(s) - 1)) ELSE s

Trim(s) == TrimEnd(TrimStart(s))

Undefined == [name |-> "undefined", width |-> 0, height |-> 0]

Min(a, b) == IF a < b THEN a ELSE b

(* Array.prototype.splice(start, 1) and splice(start, 0, item) for         *)
(* non-negative start: start is clamped to the length.                     *)
SpliceOut(s, start) ==
    IF start < Len(s)
    THEN SubSeq(s, 1, start) \o SubSeq(s, start + 2, Len(s))
    ELSE s

SpliceIn(s, start, item) ==
    LET at == Min(start, Len(s))
    IN  SubSeq(s, 1, at) \o <<item>> \o SubSeq(s, at + 1, Len(s))

Init ==
    /\ imageFiles = <<>>
    /\ pdfFilename = DefaultFilename
    /\ isLoading = FALSE
    /\ error = NoError
    /\ dragItemIndex = Null
    /\ dragOverItemIndex = Null
    /\ runs = <<>>
    /\ jspdfLoaded \in BOOLEAN
    /\ pointerCard = Null

(* handleDragLeave and handleDragOver touch only the class list of the     *)
(* card and the event; they change no state of the component.              *)
handleDragStart(index) ==
    /\ index \in 0 .. Len(imageFiles) - 1
    /\ dragItemIndex' = index
    /\ UNCHANGED <<imageFiles, pdfFilename, isLoading, error,
                   dragOverItemIndex, runs, jspdfLoaded>>

handleDragEnter(index) ==
    /\ index \in 0 .. Len(imageFiles) - 1
    /\ dragOverItemIndex' = IF index = dragItemIndex THEN dragOverItemIndex ELSE index
    /\ UNCHANGED <<imageFiles, pdfFilename, isLoading, error,
                   dragItemIndex, runs, jspdfLoaded>>

Moved(files, from, to) ==
    LET draggedItem == IF from < Len(files) THEN files[from + 1] ELSE Undefined
    IN  SpliceIn(SpliceOut(files, from), to, draggedItem)

handleDrop ==
    /\ Len(imageFiles) > 0
    /\ imageFiles' =
           IF dragItemIndex = Null \/ dragOverItemIndex = Null
              \/ dragItemIndex = dragOverItemIndex
           THEN imageFiles
           ELSE Moved(imageFiles, dragItemIndex, dragOverItemIndex)
    /\ UNCHANGED <<pdfFilename, isLoading, error, dragItemIndex,
                   dragOverItemIndex, runs, jspdfLoaded, pointerCard>>

handleDragEnd ==
    /\ Len(imageFiles) > 0
    /\ dragItemIndex' = Null
    /\ dragOverItemIndex' = Null
    /\ UNCHANGED <<imageFiles, pdfFilename, isLoading, error, runs, jspdfLoaded>>

handleFilesAdded(files) ==
    /\ error' = NoError
    /\ imageFiles' = imageFiles \o files
    /\ UNCHANGED <<pdfFilename, isLoading, dragItemIndex, dragOverItemIndex,
                   runs, jspdfLoaded, pointerCard>>

handleRemoveFile(indexToRemove) ==
    /\ indexToRemove \in 0 .. Len(imageFiles) - 1
    /\ imageFiles' = SpliceOut(imageFiles, indexToRemove)
    /\ UNCHANGED <<pdfFilename, isLoading, error, dragItemIndex,
                   dragOverItemIndex, runs, jspdfLoaded, pointerCard>>

setPdfFilename(value) ==
    /\ pdfFilename' = value
    /\ UNCHANGED <<imageFiles, isLoading, error, dragItemIndex,
                   dragOverItemIndex, runs, jspdfLoaded, pointerCard>>

(* Faulty variant of handleGeneratePdf: the filename is tested untrimmed.  *)
handleGeneratePdfUntrimmed ==
    /\ IF Len(imageFiles) = 0
       THEN /\ error' = ErrNoImages
            /\ UNCHANGED <<isLoading, runs>>
       ELSE IF pdfFilename = <<>>
       THEN /\ error' = ErrNoFilename
            /\ UNCHANGED <<isLoading, runs>>
       ELSE /\ Len(runs) < MaxRuns
            /\ LET r == GeneratePdfStart(imageFiles, Trim(pdfFilename),
                                         "handleGeneratePdf")
               IN  /\ runs' = Append(runs, r)
                   /\ error' = IF r.pc = "thrown" THEN ErrFailed ELSE NoError
                   /\ isLoading' = (r.pc = "await")
    /\ UNCHANGED <<imageFiles, pdfFilename, dragItemIndex, dragOverItemIndex,
                   jspdfLoaded, pointerCard>>

(* handleGeneratePdf up to its await.  A call of generatePdf that throws   *)
(* before its first suspension is caught in the same task: the error is    *)
(* set and finally puts isLoading back to false.                           *)
handleGeneratePdf ==
    /\ IF Len(imageFiles) = 0
       THEN /\ error' = ErrNoImages
            /\ UNCHANGED <<isLoading, runs>>
       ELSE IF Trim(pdfFilename) = <<>>
       THEN /\ error' = ErrNoFilename
            /\ UNCHANGED <<isLoading, runs>>
       ELSE /\ Len(runs) < MaxRuns
            /\ LET r == GeneratePdfStart(imageFiles, Trim(pdfFilename),
                                         "handleGeneratePdf")
               IN  /\ runs' = Append(runs, r)
                   /\ error' = IF r.pc = "thrown" THEN ErrFailed ELSE NoError
                   /\ isLoading' = (r.pc = "await")
    /\ UNCHANGED <<imageFiles, pdfFilename, dragItemIndex, dragOverItemIndex,
                   jspdfLoaded, pointerCard>>

resetApp ==
    /\ imageFiles' = <<>>
    /\ pdfFilename' = DefaultFilename
    /\ error' = NoError
    /\ isLoading' = FALSE
    /\ UNCHANGED <<dragItemIndex, dragOverItemIndex, runs, jspdfLoaded, pointerCard>>

-----------------------------------------------------------------------------
(* The rendered page: which handlers the user can reach *)

PanelShown == Len(imageFiles) > 0

GenerateEnabled == ~isLoading

(* While a card is being dragged the browser delivers drag events only;    *)
(* dragenter and drop also reach the cards when files are dragged in from  *)
(* outside, with no dragstart before them.  pointerCard is the card the    *)
(* pointer is over during a card drag: the dragged card at dragstart, then *)
(* the card of the latest dragenter; a drop lands on that card.            *)
Dragging == dragItemIndex # Null

AddFiles ==
    /\ ~Dragging
    /\ \E files \in SeqsUpTo(UploadFiles, MaxImages - Len(imageFiles)) :
          handleFilesAdded(files)

RemoveFile ==
    /\ ~Dragging
    /\ \E index \in 0 .. Len(imageFiles) - 1 : handleRemoveFile(index)

EditFilename ==
    /\ ~Dragging
    /\ PanelShown
    /\ \E value \in FilenameInputs : setPdfFilename(value)

ClickGenerate ==
    /\ ~Dragging
    /\ PanelShown
    /\ GenerateEnabled
    /\ handleGeneratePdf

ClickStartOver ==
    /\ ~Dragging
    /\ PanelShown
    /\ resetApp

DragStart ==
    /\ ~Dragging
    /\ \E index \in 0 .. Len(imageFiles) - 1 :
          /\ handleDragStart(index)
          /\ pointerCard' = index

DragEnter ==
    \E index \in 0 .. Len(imageFiles) - 1 :
        /\ handleDragEnter(index)
        /\ pointerCard' = IF Dragging THEN index ELSE pointerCard

Drop == handleDrop

DragEnd ==
    /\ Dragging
    /\ handleDragEnd
    /\ pointerCard' = Null

Next ==
    \/ AddFiles
    \/ RemoveFile
    \/ EditFilename
    \/ ClickGenerate
    \/ ClickStartOver
    \/ DragStart
    \/ DragEnter
    \/ Drop
    \/ DragEnd
    \/ LoadResolved
    \/ LoadRejected

Spec == Init /\ [][Next]_vars

(* The runs and the actions that start, feed or reset them, without the    *)
(* card drag events.  Every pending image load settles: onload or onerror  *)
(* fires for each Image whose src was set, so a run that awaits a load is  *)
(* resumed.                                                                *)
NextRuns ==
    \/ AddFiles
    \/ RemoveFile
    \/ EditFilename
    \/ ClickGenerate
    \/ ClickStartOver
    \/ LoadResolved
    \/ LoadRejected

SpecLive ==
    /\ Init
    /\ [][NextRuns]_vars
    /\ \A k \in 1 .. MaxRuns : WF_vars(LoadSettled(k, FALSE) \/ LoadSettled(k, TRUE))

-----------------------------------------------------------------------------
(* generatePdf called on its own, over any input list *)

PdfInputs == SeqsUpTo(Files, MaxPdfFiles) \cup {<<f>> : f \in ProbeFiles}

PdfNames == {DefaultFilename, Album}

CallGeneratePdf ==
    /\ Len(runs) = 0
    /\ \E files \in PdfInputs, name \in PdfNames :
          runs' = <<GeneratePdfStart(files, name, "caller")>>
    /\ UNCHANGED <<imageFiles, pdfFilename, isLoading, error, dragItemIndex,
                   dragOverItemIndex, jspdfLoaded, pointerCard>>

NextPdf ==
    \/ CallGeneratePdf
    \/ LoadResolved
    \/ LoadRejected

SpecPdf == Init /\ [][NextPdf]_vars

-----------------------------------------------------------------------------
(* The handlers of App invoked directly, whatever the page shows *)

CallFilesAdded ==
    \E files \in SeqsUpTo(UploadFiles, MaxImages - Len(imageFiles)) :
        handleFilesAdded(files)

CallRemoveFile == \E index \in 0 .. Len(imageFiles) - 1 : handleRemoveFile(index)

CallSetPdfFilename == \E value \in HandlerFilenameInputs : setPdfFilename(value)

NextHandlers ==
    \/ CallFilesAdded
    \/ CallRemoveFile
    \/ CallSetPdfFilename
    \/ handleGeneratePdf
    \/ resetApp
    \/ LoadResolved
    \/ LoadRejected

SpecHandlers == Init /\ [][NextHandlers]_vars

-----------------------------------------------------------------------------
(* Reordering the cards: the list and the drag events alone, over lists of *)
(* up to MaxCards images                                                   *)

AddCards ==
    /\ ~Dragging
    /\ \E files \in SeqsUpTo(Files, MaxCards - Len(imageFiles)) :
          handleFilesAdded(files)

NextReorder ==
    \/ AddCards
    \/ RemoveFile
    \/ DragStart
    \/ DragEnter
    \/ Drop
    \/ DragEnd

SpecReorder == Init /\ [][NextReorder]_vars

-----------------------------------------------------------------------------
(* Properties *)

Runs == {runs[k] : k \in 1 .. Len(runs)}

HasText(page, t) == \E j \in 1 .. Len(page.texts) : page.texts[j].text = t

IsImagePage(page, file) == page.image # NoImage /\ page.image.file = file

IsErrorPage(page, file) ==
    /\ page.image = NoImage
    /\ Len(page.texts) = 1
    /\ page.texts[1].text = ErrorText(file)

HasContent(page) == page # EmptyPage

(* C1: over a non-empty list of N files, whatever loads or fails, the      *)
(* writer holds its initial page plus one added page per index i > 0, and  *)
(* the saved document has exactly N pages.                                 *)
C1_PageCount ==
    \A r \in Runs :
        Len(r.files) > 0 =>
            /\ r.pc = "await" => Len(r.pages) = r.i + 1
            /\ \A j \in 1 .. Len(r.saved) : Len(r.saved[j].pages) = Len(r.files)

C1_Witness ==
    \E r \in Runs :
        /\ Len(r.files) = MaxPdfFiles
        /\ Len(r.saved) = 1
        /\ Len(r.saved[1].pages) = MaxPdfFiles
        /\ \A j \in 1 .. MaxPdfFiles : IsErrorPage(r.saved[1].pages[j], r.files[j])

(* C2: every page i of a saved document over N files carries the footer    *)
(* text "Page i of N", whether it shows an image or an error line.         *)
C2_FooterOnEveryPage ==
    \A r \in Runs :
        \A s \in 1 .. Len(r.saved) :
            \A j \in 1 .. Len(r.saved[s].pages) :
                HasText(r.saved[s].pages[j], <<"Page ", j, " of ", Len(r.files)>>)

(* C3: a failed load neither throws nor stops the run: page i gets the     *)
(* error line naming file i and no image, every other processed page is    *)
(* exactly the page the run would have produced had image i loaded, and    *)
(* the run ends with the document saved exactly once.                      *)
RECURSIVE RunAfter(_, _)
RunAfter(r, outcomes) ==
    IF outcomes = <<>> THEN r
    ELSE GeneratePdfResume(RunAfter(r, SubSeq(outcomes, 1, Len(outcomes) - 1)),
                           outcomes[Len(outcomes)])

C3_HadLoaded(r, i) ==
    RunAfter(GeneratePdfStart(r.files, r.pdfFilename, r.caller),
             [r.outcomes EXCEPT ![i] = TRUE])

C3_FailureIsolated ==
    \A r \in Runs :
        /\ r.pc = "thrown" => r.loads = <<>>
        /\ r.pc \in {"await", "done"} =>
              /\ Len(r.outcomes) = r.i
              /\ \A i \in 1 .. r.i :
                    ~r.outcomes[i] =>
                        /\ IsErrorPage(r.pages[i], r.files[i])
                        /\ r.pages[i].texts[1].color = "red"
                        /\ \A j \in (1 .. r.i) \ {i} :
                              r.pages[j] = C3_HadLoaded(r, i).pages[j]
        /\ r.pc = "await" => r.i < Len(r.files) /\ r.saved = <<>>
        /\ r.pc = "done" /\ Len(r.files) > 0 =>
              /\ r.i = Len(r.files)
              /\ Len(r.saved) = 1
              /\ r.saved[1].pages = r.pages
              /\ r.saved[1].name = r.pdfFilename \o PdfExtension

C3_Witness ==
    \E r \in Runs :
        /\ r.pc = "done"
        /\ r.files = <<WideFile, SquareFile, TallFile>>
        /\ Len(r.saved) = 1
        /\ IsImagePage(r.saved[1].pages[1], WideFile)
        /\ IsErrorPage(r.saved[1].pages[2], SquareFile)
        /\ IsImagePage(r.saved[1].pages[3], TallFile)

(* C4: images are requested in input order 0..N-1, each once, with at most *)
(* one request outstanding; the request for image i+1 is made only when    *)
(* page i has its content; and what page k shows comes from files[k].      *)
C4_SequentialLoads ==
    \A r \in Runs :
        /\ \A j \in 1 .. Len(r.loads) : r.loads[j] = j - 1
        /\ Len(r.loads) <= Len(r.files)
        /\ Len(r.loads) - r.i \in {0, 1}
        /\ r.pc = "await" <=> Len(r.loads) - r.i = 1
        /\ r.pc = "done" => Len(r.loads) = Len(r.files)
        /\ \A j \in 1 .. Len(r.loads) - 1 : HasContent(r.pages[j])
        /\ \A k \in 1 .. Len(r.pages) :
              \/ r.pages[k] = EmptyPage /\ k = r.i + 1
              \/ IsImagePage(r.pages[k], r.files[k])
              \/ IsErrorPage(r.pages[k], r.files[k])

C4_Witness ==
    \E r \in Runs :
        /\ r.pc = "done"
        /\ r.files = <<TallFile, WideFile, SquareFile>>
        /\ r.loads = <<0, 1, 2>>
        /\ IsImagePage(r.pages[1], TallFile)
        /\ IsImagePage(r.pages[2], WideFile)
        /\ IsImagePage(r.pages[3], SquareFile)

(* C5: a run keeps the list it was started with.  The list handed to       *)
(* generatePdf is the image list at the moment handleGeneratePdf is        *)
(* invoked; no later step changes a run's list or a page it has already    *)
(* drawn; and every page k drawn shows the k-th file of that list,         *)
(* whatever the image list has become since.                               *)
C5_PagesFollowList ==
    \A r \in Runs :
        /\ \A k \in 1 .. r.i :
              IsImagePage(r.pages[k], r.files[k]) \/ IsErrorPage(r.pages[k], r.files[k])
        /\ \A j \in 1 .. Len(r.saved) :
              r.saved[j].pages = r.pages /\ Len(r.pages) = Len(r.files)

C5_RunKeepsList ==
    /\ Len(runs') >= Len(runs)
    /\ \A k \in 1 .. Len(runs) :
          /\ runs'[k].files = runs[k].files
          /\ runs'[k].i >= runs[k].i
          /\ \A j \in 1 .. runs[k].i : runs'[k].pages[j] = runs[k].pages[j]
    /\ \A k \in Len(runs) + 1 .. Len(runs') : runs'[k].files = imageFiles

C5_SnapshotAtInvocation == [](C5_PagesFollowList) /\ [][C5_RunKeepsList]_vars

C5_Witness ==
    \E r \in Runs :
        /\ r.pc = "await"
        /\ r.i = 1
        /\ r.files = <<WideFile, TallFile>>
        /\ IsImagePage(r.pages[1], WideFile)
        /\ imageFiles = <<TallFile, WideFile>>

(* C6: handleGeneratePdf invoked with an empty image list, or with a       *)
(* filename that is empty once trimmed, starts no run and draws no page:   *)
(* it sets an error message and leaves isLoading and the image list as     *)
(* they were.                                                              *)
C6_Rejected == Len(imageFiles) = 0 \/ Trim(pdfFilename) = <<>>

C6_NoRunStarted ==
    /\ C6_Rejected => Len(runs') = Len(runs)
    /\ C6_Rejected /\ handleGeneratePdf =>
          /\ runs' = runs
          /\ error' = IF Len(imageFiles) = 0 THEN ErrNoImages ELSE ErrNoFilename
          /\ error' # NoError
          /\ isLoading' = isLoading
          /\ imageFiles' = imageFiles

C6_ValidationRejects == [][C6_NoRunStarted]_vars

C6_Witness ==
    /\ error = ErrNoImages
    /\ imageFiles = <<>>
    /\ isLoading
    /\ Len(runs) = 1
    /\ runs[1].pc = "await"

(* C7: a run saves at most once and only when all N pages have been drawn; *)
(* a run that threw saved nothing, and at the step where it throws the     *)
(* caller shows the "Failed to generate PDF" error and stops loading.      *)
C7_SaveState ==
    \A r \in Runs :
        /\ Len(r.saved) <= 1
        /\ Len(r.saved) = 1 =>
              /\ r.pc = "done"
              /\ r.i = Len(r.files)
              /\ Len(r.saved[1].pages) = Len(r.files)
              /\ \A j \in 1 .. Len(r.files) : HasContent(r.saved[1].pages[j])
        /\ r.pc = "thrown" => r.saved = <<>>

C7_ThrowSurfaced ==
    \A k \in 1 .. Len(runs') :
        /\ runs'[k].pc = "thrown"
        /\ k > Len(runs) \/ runs[k].pc # "thrown"
        => error' = ErrFailed /\ ~isLoading'

C7_SaveOnceAtEnd == [](C7_SaveState) /\ [][C7_ThrowSurfaced]_vars

C7_Witness ==
    \E r \in Runs :
        /\ r.pc = "thrown"
        /\ r.saved = <<>>
        /\ Len(r.files) = MaxImages
        /\ error = ErrFailed
        /\ ~isLoading

(* C8: an image of positive pixel size is placed inside the content box    *)
(* with its aspect ratio kept: width <= MAX_WIDTH, height <= MAX_HEIGHT,   *)
(* width * image.height = height * image.width (stated as width / height = *)
(* image.width / image.height with height > 0), and one of the two limits  *)
(* is met exactly.                                                         *)
ImagesOf(r) == {r.pages[k].image : k \in {j \in 1 .. Len(r.pages) : r.pages[j].image # NoImage}}

PlacedImages == UNION {ImagesOf(r) : r \in Runs}

C8_FitsAndKeepsRatio ==
    \A im \in PlacedImages :
        /\ RLe(im.w, MAX_WIDTH)
        /\ RLe(im.h, MAX_HEIGHT)
        /\ RGt(im.h, Num(0))
        /\ RDiv(im.w, im.h) = Rat(im.file.width, im.file.height)
        /\ im.w = MAX_WIDTH \/ im.h = MAX_HEIGHT

C8_Witness ==
    \E im \in PlacedImages :
        /\ im.file.width = 1
        /\ im.file.height = MaxDim
        /\ im.h = MAX_HEIGHT
        /\ RGt(MAX_WIDTH, im.w)
        /\ RGt(im.w, Num(0))

(* C9: the placed size is the reference case split: when width/height >    *)
(* MAX_WIDTH/MAX_HEIGHT the width is MAX_WIDTH and the height is           *)
(* MAX_WIDTH / ratio; otherwise (equality and portrait included) the       *)
(* height is MAX_HEIGHT and the width is MAX_HEIGHT * ratio.               *)
C9_CaseSplit ==
    \A im \in PlacedImages :
        LET ratio == RDiv(Num(im.file.width), Num(im.file.height))
        IN  IF RGt(ratio, RDiv(MAX_WIDTH, MAX_HEIGHT))
            THEN /\ im.w = MAX_WIDTH
                 /\ im.h = RDiv(MAX_WIDTH, ratio)
            ELSE /\ im.h = MAX_HEIGHT
                 /\ im.w = RMul(MAX_HEIGHT, ratio)

C9_Witness ==
    \E im \in PlacedImages :
        /\ Rat(im.file.width, im.file.height) = RDiv(MAX_WIDTH, MAX_HEIGHT)
        /\ im.h = MAX_HEIGHT
        /\ im.w = MAX_WIDTH

(* C10: in a finished run over valid images of ratios 2:1, 1:1 and 1:3,    *)
(* the first is width-bound, the second height-bound and the third         *)
(* height-bound too (its width is a third of MAX_HEIGHT); the three pages  *)
(* carry the footers "Page 1 of 3", "Page 2 of 3", "Page 3 of 3".          *)
C10_Scenario(r) ==
    /\ r.pc = "done"
    /\ r.files = <<WideFile, SquareFile, TallFile>>
    /\ \A j \in 1 .. 3 : r.pages[j].image # NoImage

C10_Footers(r) ==
    /\ Len(r.saved) = 1
    /\ Len(r.saved[1].pages) = 3
    /\ \A j \in 1 .. 3 :
          /\ Len(r.saved[1].pages[j].texts) = 1
          /\ r.saved[1].pages[j].texts[1].text = <<"Page ", j, " of ", 3>>

C10_ThirdHeightBound ==
    \A r \in Runs :
        C10_Scenario(r) =>
            /\ r.pages[1].image.w = MAX_WIDTH
            /\ RGt(MAX_HEIGHT, r.pages[1].image.h)
            /\ r.pages[2].image.h = MAX_HEIGHT
            /\ RGt(MAX_WIDTH, r.pages[2].image.w)
            /\ r.pages[3].image.h = MAX_HEIGHT
            /\ r.pages[3].image.w = RDiv(MAX_HEIGHT, Num(3))
            /\ C10_Footers(r)

(* C10 as first stated: the third image (1:3) is width-bound.              *)
C10_ThirdWidthBound ==
    \A r \in Runs :
        C10_Scenario(r) =>
            /\ r.pages[1].image.w = MAX_WIDTH
            /\ r.pages[2].image.h = MAX_HEIGHT
            /\ r.pages[3].image.w = MAX_WIDTH
            /\ C10_Footers(r)

C10_Witness == \E r \in Runs : C10_Scenario(r) /\ Len(r.saved) = 1

(* C11: with the default page configuration (landscape A4, margin 15,      *)
(* footer reserve 20) every image of a run is fitted to the same content   *)
(* box: MAX_WIDTH is the page width less 30 and MAX_HEIGHT is the page     *)
(* height less 50, which on the page the writer reports (297.0000833 x     *)
(* 210.0015556) is 3204001/12000 x 720007/4500, between 267 and 268 wide   *)
(* and between 160 and 161 high.                                           *)
C11_Within(x, low) == RLe(Num(low), x) /\ RGt(Num(low + 1), x)

C11_InBox(im, boxWidth, boxHeight) ==
    /\ RLe(im.w, boxWidth)
    /\ RLe(im.h, boxHeight)
    /\ im.w = boxWidth \/ im.h = boxHeight

C11_ContentBox ==
    /\ MAX_WIDTH = RSub(PAGE_WIDTH, Num(30))
    /\ MAX_HEIGHT = RSub(PAGE_HEIGHT, Num(50))
    /\ MAX_WIDTH = Rat(3204001, 12000)
    /\ MAX_HEIGHT = Rat(720007, 4500)
    /\ C11_Within(PAGE_WIDTH, 297) /\ C11_Within(PAGE_HEIGHT, 210)
    /\ C11_Within(MAX_WIDTH, 267) /\ C11_Within(MAX_HEIGHT, 160)
    /\ \A im \in PlacedImages :
          C11_InBox(im, RSub(PAGE_WIDTH, Num(30)), RSub(PAGE_HEIGHT, Num(50)))

(* C11 as first stated: the content box is 267 x 175.                      *)
C11_Box267x175 ==
    /\ MAX_WIDTH = Num(267)
    /\ MAX_HEIGHT = Num(175)
    /\ \A im \in PlacedImages : C11_InBox(im, Num(267), Num(175))

C11_Witness ==
    \E r \in Runs :
        /\ r.pc = "done"
        /\ Len(r.pages) = 3
        /\ \A j \in 1 .. 3 : r.pages[j].image # NoImage
        /\ r.pages[1].image.w = MAX_WIDTH /\ r.pages[1].image.h # MAX_HEIGHT
        /\ r.pages[2].image.h = MAX_HEIGHT /\ r.pages[2].image.w # MAX_WIDTH
        /\ r.pages[3].image.h = MAX_HEIGHT /\ r.pages[3].image.w # MAX_WIDTH

(* C12: a placed image is centred horizontally and starts at the top       *)
(* margin: x + width / 2 = PAGE_WIDTH / 2 and y = MARGIN, hence            *)
(* x >= MARGIN and x + width <= PAGE_WIDTH - MARGIN.                       *)
C12_CentredTopAligned ==
    \A im \in PlacedImages :
        /\ RAdd(im.x, RDiv(im.w, Num(2))) = RDiv(PAGE_WIDTH, Num(2))
        /\ im.y = Num(MARGIN)
        /\ RLe(Num(MARGIN), im.x)
        /\ RLe(RAdd(im.x, im.w), RSub(PAGE_WIDTH, Num(MARGIN)))

C12_Witness ==
    \E im \in PlacedImages :
        /\ im.file.width = 1
        /\ im.file.height = MaxDim
        /\ RGt(im.x, Num(MARGIN))
        /\ RGt(RSub(PAGE_WIDTH, Num(MARGIN)), RAdd(im.x, im.w))

(* C13: at most one run is in flight at any time, and isLoading is true    *)
(* exactly while a run is in flight.                                       *)
InFlight == {k \in 1 .. Len(runs) : runs[k].pc = "await"}

C13_SingleRunInFlight ==
    /\ Cardinality(InFlight) <= 1
    /\ isLoading <=> InFlight # {}


-----------------------------------------------------------------------------
(* C14: handleDrop is a pure move.  With either ref null, or both equal,   *)
(* it leaves imageFiles unchanged.  Otherwise the list after it is a       *)
(* permutation of the list before it with the same length, the dragged     *)
(* image sits at index dragOverItemIndex, and the remaining images keep    *)
(* their relative order.                                                   *)
C14_NoMove ==
    \/ dragItemIndex = Null
    \/ dragOverItemIndex = Null
    \/ dragItemIndex = dragOverItemIndex

C14_MovedTo(before, after, from, to) ==
    /\ Len(after) = Len(before)
    /\ to < Len(after)
    /\ after[to + 1] = before[from + 1]
    /\ SpliceOut(after, to) = SpliceOut(before, from)

C14_DropStep ==
    handleDrop =>
        IF C14_NoMove
        THEN imageFiles' = imageFiles
        ELSE C14_MovedTo(imageFiles, imageFiles', dragItemIndex, dragOverItemIndex)

C14_PureMove == [][C14_DropStep]_vars

-----------------------------------------------------------------------------
(* C15: a drop during a card drag moves the dragged image to the position  *)
(* of the card it is dropped on; dropped back on the card it started from, *)
(* the order is unchanged.                                                 *)
C15_DropStep ==
    (Dragging /\ handleDrop) =>
        /\ pointerCard = dragItemIndex => imageFiles' = imageFiles
        /\ C14_MovedTo(imageFiles, imageFiles', dragItemIndex, pointerCard)

C15_DropOnTarget == [][C15_DropStep]_vars


-----------------------------------------------------------------------------
(* C16: every run that passes validation terminates, given that every      *)
(* image load settles.  A run that cannot get the writer fails at once     *)
(* with the 'Failed to generate PDF' error and isLoading false; a run that *)
(* awaits a load eventually ends with the document saved once and          *)
(* isLoading set back to false.                                            *)
C16_Started ==
    /\ handleGeneratePdf
    /\ Len(runs') = Len(runs) + 1

C16_StartStep ==
    C16_Started =>
        LET r == runs'[Len(runs')]
        IN  \/ r.pc = "await" /\ isLoading' /\ r.saved = <<>>
            \/ r.pc = "thrown" /\ r.saved = <<>> /\ error' = ErrFailed /\ ~isLoading'

C16_Awaiting(k) == k <= Len(runs) /\ runs[k].pc = "await"

C16_Saved(k) ==
    /\ k <= Len(runs)
    /\ runs[k].pc = "done"
    /\ Len(runs[k].saved) = 1
    /\ ~isLoading

C16_Terminates ==
    /\ [][C16_StartStep]_vars
    /\ \A k \in 1 .. MaxRuns : C16_Awaiting(k) ~> C16_Saved(k)

C16_Witness ==
    /\ ~isLoading
    /\ \E r \in Runs :
          /\ r.caller = "handleGeneratePdf"
          /\ r.pc = "done"
          /\ Len(r.files) = MaxImages
          /\ Len(r.saved) = 1
          /\ \E j \in 1 .. Len(r.pages) : IsErrorPage(r.pages[j], r.files[j])
          /\ \E j \in 1 .. Len(r.pages) : IsImagePage(r.pages[j], r.files[j])

====
